---- MODULE Spec2Model ----
(***************************************************************************)
(* A model of the APEX core: the coordinator ApexCore (apex_core), its     *)
(* four engines (executor, math_engine, telemetry, tx_engine) and the      *)
(* callers that reach the engines through the coordinator's accessors.     *)
(*                                                                         *)
(* f64 is modelled as a binary floating-point format with the rules of     *)
(* IEEE-754 (round to nearest, ties to even; overflow to an infinity; NaN) *)
(* and a reduced width: SigBits significand bits instead of 53, a smallest *)
(* quantum of 2^-FracBits instead of 2^-1074 and a largest quantum of      *)
(* 2^QMax smallest quanta.  A finite float is held as the integer k of     *)
(* smallest quanta it is worth (its value is k / 2^FracBits).  Signed      *)
(* zeros are not distinguished, and powi(2) is taken as the one correctly  *)
(* rounded multiplication x * x it compiles to.                            *)
(***************************************************************************)
EXTENDS Integers, Sequences, FiniteSets

VARIABLES
    core,      \* the ApexCore value: initialized and the four engines
    sink,      \* what the tracing collaborator received from TelemetryEngine::record
    recorded,  \* history: every record call made, with the enabled flag it saw
    txs,       \* the Transaction values returned so far, owned by their callers
    initCalls, \* history: how many initialize() calls returned Ok: none, one, many
    last       \* the last call made: its operation, arguments and result

vars == <<core, sink, recorded, txs, initCalls, last>>

-----------------------------------------------------------------------------
(* Bounds of the model *)

SigBits == 5
FracBits == 2
QMax == 3
MaxLen == 3
MaxWindow == 4
MaxRecords == 2
MaxTx == 2

(* Program constants *)

DefaultPrecision == 8

-----------------------------------------------------------------------------
(* f64 *)

Unit == 2 ^ FracBits
MaxK == (2 ^ SigBits - 1) * 2 ^ QMax

F(k) == [c |-> "fin", k |-> k]
NaN == [c |-> "nan", k |-> 0]
PInf == [c |-> "inf", k |-> 1]
NInf == [c |-> "inf", k |-> -1]
Zero == F(0)
FMax == F(MaxK)
Lit(n) == F(n * Unit)

IsFinite(x) == x.c = "fin"
IsNaN(x) == x.c = "nan"
Abs(n) == IF n < 0 THEN -n ELSE n
Sign(n) == IF n < 0 THEN -1 ELSE 1
SignOf(x) == IF x.k < 0 THEN -1 ELSE 1
Inf(s) == IF s < 0 THEN NInf ELSE PInf

RECURSIVE BitLen(_)
BitLen(q) == IF q = 0 THEN 0 ELSE 1 + BitLen(q \div 2)

\* the quantum of a float of magnitude q smallest quanta (q rounded down)
Quantum(q) == IF BitLen(q) > SigBits THEN 2 ^ (BitLen(q) - SigBits) ELSE 1

Representable(k) == Abs(k) <= MaxK /\ Abs(k) % Quantum(Abs(k)) = 0

\* the integer nearest to a / b (a >= 0, b > 0), a tie going to the even one
RoundHalfEven(a, b) ==
    LET q == a \div b
        r == a % b
    IN  IF 2 * r < b THEN q
        ELSE IF 2 * r > b THEN q + 1
        ELSE IF q % 2 = 0 THEN q ELSE q + 1

\* the float nearest to the exact value n / d smallest quanta (d > 0)
Round(n, d) ==
    LET a == Abs(n)
        Q == Quantum(a \div d)
        k == RoundHalfEven(a, d * Q) * Q
    IN  IF k > MaxK THEN Inf(n) ELSE F(Sign(n) * k)

FNeg(x) == IF IsNaN(x) THEN NaN ELSE [x EXCEPT !.k = -x.k]

FAdd(x, y) ==
    IF IsNaN(x) \/ IsNaN(y) THEN NaN
    ELSE IF ~IsFinite(x) /\ ~IsFinite(y) THEN (IF x = y THEN x ELSE NaN)
    ELSE IF ~IsFinite(x) THEN x
    ELSE IF ~IsFinite(y) THEN y
    ELSE Round(x.k + y.k, 1)

FSub(x, y) == FAdd(x, FNeg(y))

FMul(x, y) ==
    IF IsNaN(x) \/ IsNaN(y) THEN NaN
    ELSE IF ~IsFinite(x) \/ ~IsFinite(y)
         THEN (IF x.k = 0 \/ y.k = 0 THEN NaN ELSE Inf(SignOf(x) * SignOf(y)))
    ELSE Round(x.k * y.k, Unit)

FDiv(x, y) ==
    IF IsNaN(x) \/ IsNaN(y) THEN NaN
    ELSE IF ~IsFinite(x) /\ ~IsFinite(y) THEN NaN
    ELSE IF ~IsFinite(x) THEN Inf(SignOf(x) * SignOf(y))
    ELSE IF ~IsFinite(y) THEN Zero
    ELSE IF y.k = 0 THEN (IF x.k = 0 THEN NaN ELSE Inf(SignOf(x)))
    ELSE Round(Sign(y.k) * x.k * Unit, Abs(y.k))

\* the largest r with r * r <= n
ISqrt(n) == CHOOSE r \in 0..n : r * r <= n /\ (r + 1) * (r + 1) > n

FSqrt(x) ==
    IF IsNaN(x) THEN NaN
    ELSE IF ~IsFinite(x) THEN (IF x = PInf THEN PInf ELSE NaN)
    ELSE IF x.k < 0 THEN NaN
    ELSE LET S == x.k * Unit   \* the root is sqrt(S) smallest quanta
             Q == Quantum(ISqrt(S))
             m == ISqrt(S \div (Q * Q))
             mid == (2 * m + 1) * (2 * m + 1) * Q * Q
         IN  IF 4 * S < mid THEN F(m * Q)
             ELSE IF 4 * S > mid THEN F((m + 1) * Q)
             ELSE IF m % 2 = 0 THEN F(m * Q) ELSE F((m + 1) * Q)

\* usize as f64
FromUsize(n) == Round(n * Unit, 1)

\* Iterator::sum::<f64>() : a fold from the left, starting at zero
RECURSIVE SumFirst(_, _)
SumFirst(s, n) == IF n = 0 THEN Zero ELSE FAdd(SumFirst(s, n - 1), s[n])
FSum(s) == SumFirst(s, Len(s))

-----------------------------------------------------------------------------
(* anyhow::Result *)

Ok(v) == [tag |-> "Ok", val |-> v]
Err(e) == [tag |-> "Err", val |-> e]
UnitValue == "()"

-----------------------------------------------------------------------------
(* math_engine *)

MathEngine_new(precision) == [precision |-> precision]

\* moving_average with the loop started one late (window + 1 ..= len)
moving_average_late_start(self, data, window) ==
    IF Len(data) < window
    THEN Ok(<<>>)
    ELSE Ok([j \in 1..(Len(data) - window) |->
                LET i == window + j
                IN  FDiv(FSum(SubSeq(data, i - window + 1, i)), FromUsize(window))])

\* the slice data[i - window .. i] of the loop, i counted as the code counts it
Slice(data, window, i) == SubSeq(data, i - window + 1, i)

moving_average(self, data, window) ==
    IF Len(data) < window
    THEN Ok(<<>>)
    ELSE Ok([j \in 1..(Len(data) - window + 1) |->
                LET i == window + j - 1
                IN  FDiv(FSum(Slice(data, window, i)), FromUsize(window))])

\* std_deviation with the sample divisor, len - 1
std_deviation_sample(self, data) ==
    IF data = <<>>
    THEN Zero
    ELSE LET mean == FDiv(FSum(data), FromUsize(Len(data)))
             sq == [i \in 1..Len(data) |->
                        FMul(FSub(data[i], mean), FSub(data[i], mean))]
             variance == FDiv(FSum(sq), FromUsize(Len(data) - 1))
         IN  FSqrt(variance)

std_deviation(self, data) ==
    IF data = <<>>
    THEN Zero
    ELSE LET mean == FDiv(FSum(data), FromUsize(Len(data)))
             sq == [i \in 1..Len(data) |->
                        FMul(FSub(data[i], mean), FSub(data[i], mean))]
             variance == FDiv(FSum(sq), FromUsize(Len(data)))
         IN  FSqrt(variance)

-----------------------------------------------------------------------------
(* executor *)

Executor_new == [active |-> TRUE]

Executor_execute(self) == Ok(UnitValue)

-----------------------------------------------------------------------------
(* telemetry *)

TelemetryEngine_new == [enabled |-> TRUE]

\* the event info!("Recording metric: {:?}", data) hands to the subscriber:
\* the message and the derived Debug rendering of the three fields, in order
RecordingMetric(data) ==
    [message |-> "Recording metric: TelemetryData",
     timestamp |-> data.timestamp,
     metric_name |-> data.metric_name,
     value |-> data.value]

\* record with the test of enabled inverted
TelemetryEngine_record_inverted(self, data) ==
    IF ~self.enabled THEN <<RecordingMetric(data)>> ELSE <<>>

\* the events record(data) emits
TelemetryEngine_record(self, data) ==
    IF self.enabled THEN <<RecordingMetric(data)>> ELSE <<>>

-----------------------------------------------------------------------------
(* tx_engine *)

\* the values Uuid::new_v4() may return: two of the 2^122 random values
Uuids == {0, 1}

\* Uuid::to_string(): the hyphenated rendering, one string per value
Uuid_to_string(u) == <<"uuid", u>>

TxEngine_new == [active |-> TRUE]

\* uuid is the value Uuid::new_v4() returned in this call
create_transaction(self, amount, uuid) ==
    Ok([id |-> Uuid_to_string(uuid), status |-> "Pending", amount |-> amount])

submit(self, tx) == Ok(UnitValue)

\* submit marking the transaction confirmed
SubmittedTx_confirmed(tx) == [tx EXCEPT !.status = "Confirmed"]

\* the caller's transaction after submit(&tx) has returned
SubmittedTx(tx) == tx

\* create_transaction keeping the transaction in the engine
TxEngine_retaining(self, tx) == [active |-> self.active, created |-> tx]

\* the engine after create_transaction(&self, ..) has returned
TxEngineAfterCreate(self, tx) == self

-----------------------------------------------------------------------------
(* apex_core *)

\* new() with the coordinator already marked initialized
ApexCore_new_initialized ==
    [initialized |-> TRUE,
     executor |-> Executor_new,
     math_engine |-> MathEngine_new(DefaultPrecision),
     telemetry |-> TelemetryEngine_new,
     tx_engine |-> TxEngine_new]

ApexCore_new ==
    [initialized |-> FALSE,
     executor |-> Executor_new,
     math_engine |-> MathEngine_new(DefaultPrecision),
     telemetry |-> TelemetryEngine_new,
     tx_engine |-> TxEngine_new]

\* initialize() flipping the flag instead of setting it
ApexCore_initialize_toggling(self) == [self EXCEPT !.initialized = ~self.initialized]

\* initialize(&mut self): the coordinator afterwards; the call returns Ok(())
ApexCore_initialize(self) == [self EXCEPT !.initialized = TRUE]

\* the accessors return a reference to the coordinator's own engine: the
\* reference is the name of the field, read through Deref
Accessors == {"executor", "math_engine", "telemetry", "tx_engine"}
ApexCore_accessor(self, name) == name
Deref(ref) == core[ref]

-----------------------------------------------------------------------------
(* The inputs of the calls *)

Samples == {Lit(0), Lit(1), Lit(2), Lit(-1), F(44), FMax, NaN}

RECURSIVE SeqsUpTo(_, _)
SeqsUpTo(S, n) ==
    IF n = 0 THEN {<<>>}
    ELSE LET shorter == SeqsUpTo(S, n - 1)
         IN  shorter \cup {Append(s, x) : s \in {t \in shorter : Len(t) = n - 1}, x \in S}

Example1 == <<Lit(1), Lit(2), Lit(3), Lit(4), Lit(5)>>
Example2 == <<Lit(2), Lit(4), Lit(4), Lit(4), Lit(5), Lit(5), Lit(7), Lit(9)>>

Series == SeqsUpTo(Samples, MaxLen) \cup {Example1, Example2}
Windows == 0..MaxWindow

\* the analytics inputs of the callers that go through the coordinator
CallSeries == {<<>>, <<Lit(1), Lit(2)>>}
CallWindows == {0, 1}

Amounts == {Lit(1), NaN, PInf}

TelemetryInputs ==
    {[timestamp |-> 7, metric_name |-> "latency", value |-> Lit(1)],
     [timestamp |-> 0, metric_name |-> "pnl", value |-> NaN]}

-----------------------------------------------------------------------------
(* The calls *)

NoTx == [id |-> <<"uuid", 0>>, status |-> "Pending", amount |-> Zero]
NoData == [timestamp |-> 0, metric_name |-> "", value |-> Zero]

\* a call record: the fields an operation does not use keep these values
Call(op) ==
    [op |-> op, data |-> <<>>, window |-> 0, amount |-> Zero, tx |-> NoTx,
     tdata |-> NoData, tag |-> "Ok", err |-> "", series |-> <<>>, num |-> Zero,
     ref |-> "", emitted |-> 0]

Init ==
    /\ core = ApexCore_new
    /\ sink = <<>>
    /\ recorded = <<>>
    /\ txs = <<>>
    /\ initCalls = "none"
    /\ last = Call("new")

Initialize ==
    /\ core' = ApexCore_initialize(core)
    /\ initCalls' = IF initCalls = "none" THEN "one" ELSE "many"
    /\ last' = Call("initialize")
    /\ UNCHANGED <<sink, recorded, txs>>

Accessor(name) ==
    /\ last' = [Call(name) EXCEPT !.ref = ApexCore_accessor(core, name)]
    /\ UNCHANGED <<core, sink, recorded, txs, initCalls>>

Execute ==
    /\ last' = [Call("execute") EXCEPT
                   !.tag = Executor_execute(Deref(ApexCore_accessor(core, "executor"))).tag]
    /\ UNCHANGED <<core, sink, recorded, txs, initCalls>>

MovingAverage(data, window) ==
    LET r == moving_average(Deref(ApexCore_accessor(core, "math_engine")), data, window)
    IN  /\ last' = [Call("moving_average") EXCEPT
                       !.data = data, !.window = window, !.tag = r.tag, !.series = r.val]
        /\ UNCHANGED <<core, sink, recorded, txs, initCalls>>

StdDeviation(data) ==
    LET r == std_deviation(Deref(ApexCore_accessor(core, "math_engine")), data)
    IN  /\ last' = [Call("std_deviation") EXCEPT !.data = data, !.num = r]
        /\ UNCHANGED <<core, sink, recorded, txs, initCalls>>

Record(data) ==
    LET self == Deref(ApexCore_accessor(core, "telemetry"))
        events == TelemetryEngine_record(self, data)
    IN  /\ Len(recorded) < MaxRecords
        /\ sink' = sink \o events
        /\ recorded' = Append(recorded, [data |-> data, enabled |-> self.enabled])
        /\ last' = [Call("record") EXCEPT !.tdata = data, !.emitted = Len(events)]
        /\ UNCHANGED <<core, txs, initCalls>>

CreateTransaction(amount) ==
    \E uuid \in Uuids :
        LET self == Deref(ApexCore_accessor(core, "tx_engine"))
            r == create_transaction(self, amount, uuid)
        IN  /\ Len(txs) < MaxTx
            /\ txs' = IF r.tag = "Ok" THEN Append(txs, r.val) ELSE txs
            /\ core' = [core EXCEPT !.tx_engine = TxEngineAfterCreate(self, r.val)]
            /\ last' = [Call("create_transaction") EXCEPT
                           !.amount = amount, !.tag = r.tag, !.tx = r.val]
            /\ UNCHANGED <<sink, recorded, initCalls>>

Submit(i) ==
    LET r == submit(Deref(ApexCore_accessor(core, "tx_engine")), txs[i])
    IN  /\ txs' = [txs EXCEPT ![i] = SubmittedTx(txs[i])]
        /\ last' = [Call("submit") EXCEPT !.tx = txs[i], !.tag = r.tag]
        /\ UNCHANGED <<core, sink, recorded, initCalls>>

Next ==
    \/ Initialize
    \/ \E name \in Accessors : Accessor(name)
    \/ Execute
    \/ \E data \in CallSeries, window \in CallWindows : MovingAverage(data, window)
    \/ \E data \in CallSeries : StdDeviation(data)
    \/ \E data \in TelemetryInputs : Record(data)
    \/ \E amount \in Amounts : CreateTransaction(amount)
    \/ \E i \in 1..Len(txs) : Submit(i)

Spec == Init /\ [][Next]_vars

\* The analytics functions alone, over every input within the bounds: the
\* caller's series and window are drawn first, then one function is applied
InitMath ==
    /\ core = ApexCore_new
    /\ sink = <<>>
    /\ recorded = <<>>
    /\ txs = <<>>
    /\ initCalls = "none"
    /\ \E data \in Series, window \in Windows :
           last = [Call("new") EXCEPT !.data = data, !.window = window]

ApplyMovingAverage ==
    /\ last.op = "new"
    /\ MovingAverage(last.data, last.window)

ApplyStdDeviation ==
    /\ last.op = "new"
    /\ StdDeviation(last.data)

NextMath ==
    \/ ApplyMovingAverage
    \/ ApplyStdDeviation

SpecMath == InitMath /\ [][NextMath]_vars

-----------------------------------------------------------------------------
(* Exact arithmetic, for stating what the analytics functions compute *)

Max(a, b) == IF a > b THEN a ELSE b

\* the non-negative finite floats, in smallest quanta
Magnitudes == {k \in 0..MaxK : Representable(k)}

AllFinite(data, lo, hi) == \A m \in lo..hi : IsFinite(data[m])

\* data[lo] + ... + data[hi] in smallest quanta, exactly
RECURSIVE ExactSum(_, _, _)
ExactSum(data, lo, hi) ==
    IF hi < lo THEN 0 ELSE ExactSum(data, lo, hi - 1) + data[hi].k

\* no partial sum of data[lo..hi], taken from the left, is rounded or overflows
SumIsExact(data, lo, hi) ==
    \A m \in lo..hi : Representable(ExactSum(data, lo, m))

\* n as f64 is n
CountIsExact(n) == Representable(n * Unit)

\* x is a finite float and no float is nearer to n / d smallest quanta (d > 0)
Nearest(x, n, d) ==
    /\ IsFinite(x)
    /\ \A k \in Magnitudes :
          /\ Abs(k * d - n) >= Abs(x.k * d - n)
          /\ Abs(-k * d - n) >= Abs(x.k * d - n)

\* x is a finite float >= 0 and no float is nearer to sqrt(W) / n smallest quanta
NearestRoot(x, W, n) ==
    /\ IsFinite(x)
    /\ x.k >= 0
    /\ \A k \in Magnitudes :
          /\ k < x.k => (k + x.k) * n * (k + x.k) * n <= 4 * W
          /\ k > x.k => (k + x.k) * n * (k + x.k) * n >= 4 * W

RECURSIVE SumOfSquares(_, _)
SumOfSquares(data, n) ==
    IF n = 0 THEN 0 ELSE SumOfSquares(data, n - 1) + data[n].k * data[n].k

\* n^2 times the population variance of data (n = Len(data)), in squared quanta:
\* n * sum(x^2) - (sum x)^2
ScaledVariance(data) ==
    LET n == Len(data)
        S == ExactSum(data, 1, n)
    IN  n * SumOfSquares(data, n) - S * S

IsConstant(data) == \A i \in 1..Len(data) : data[i] = data[1]

\* std_deviation's intermediate values are all held exactly: the running sum,
\* the mean, each deviation, each square, their running sum and the variance
StdIsExact(data) ==
    LET n == Len(data)
        S == ExactSum(data, 1, n)
        mean == S \div n
        dev == [i \in 1..n |-> data[i].k - mean]
        sq == [i \in 1..n |-> F((dev[i] * dev[i]) \div Unit)]
        Q == ExactSum(sq, 1, n)
    IN  /\ AllFinite(data, 1, n)
        /\ CountIsExact(n)
        /\ SumIsExact(data, 1, n)
        /\ S % n = 0 /\ Representable(mean)
        /\ \A i \in 1..n : /\ Representable(dev[i])
                           /\ (dev[i] * dev[i]) % Unit = 0
        /\ SumIsExact(sq, 1, n)
        /\ Q % n = 0 /\ Representable(Q \div n)

-----------------------------------------------------------------------------
(* The claims *)

\* C2: every transaction create_transaction returns is Pending, and every
\* transaction created so far stays Pending with its id and amount unchanged
\* under every later create_transaction and submit call.
C2_PendingUntouched ==
    /\ [](last.op = "create_transaction" => last.tx.status = "Pending")
    /\ [](\A i \in 1..Len(txs) : txs[i].status = "Pending")
    /\ [][/\ Len(txs') >= Len(txs)
          /\ \A i \in 1..Len(txs) : txs'[i] = txs[i]]_vars

C2_Witness ==
    /\ last.op = "submit"
    /\ Len(txs) = 2
    /\ txs[1].amount = NaN

\* C3: initialized is false after new(), is true only if an initialize() call
\* has returned Ok, and once true stays true under every operation.
C3_InitializedMonotonic ==
    /\ ~core.initialized
    /\ [](core.initialized => initCalls # "none")
    /\ [][core.initialized => core'.initialized]_vars

C3_Witness ==
    /\ core.initialized
    /\ initCalls = "many"
    /\ last.op = "create_transaction"

\* C4: an initialize() call on an initialized coordinator returns Ok and leaves
\* the coordinator and its four engines as they were, each accessor still
\* returning the engine new() built.
C4_InitializeIdempotent ==
    [][(core.initialized /\ last'.op = "initialize") =>
          /\ last'.tag = "Ok"
          /\ core' = core
          /\ \A a \in Accessors : core'[ApexCore_accessor(core', a)] = ApexCore_new[a]]_vars

C4_Witness ==
    /\ last.op = "initialize"
    /\ initCalls = "many"
    /\ Len(txs) > 0

\* C5: moving_average(D, 0) is rejected with InvalidWindow for every D.
C5_ZeroWindowRejected ==
    (last.op = "moving_average" /\ last.window = 0) =>
        (last.tag = "Err" /\ last.err = "InvalidWindow" /\ last.series = <<>>)

\* C6: create_transaction(amount) fails with InvalidAmount, and returns no
\* transaction, when amount is NaN or an infinity.
C6_NonFiniteAmountRejected ==
    /\ (last.op = "create_transaction" /\ ~IsFinite(last.amount)) =>
           (last.tag = "Err" /\ last.err = "InvalidAmount")
    /\ \A i \in 1..Len(txs) : IsFinite(txs[i].amount)

\* C7, as claimed: for a window w >= 1 the call succeeds with max(0, len - w + 1)
\* elements, and element i is the mean of the w samples from D[i] on (read as
\* generously as an f64 allows: the float nearest to that mean).
C7_ElementIsMean ==
    (last.op = "moving_average" /\ last.window >= 1) =>
        /\ last.tag = "Ok"
        /\ Len(last.series) = Max(0, Len(last.data) - last.window + 1)
        /\ \A j \in 1..Len(last.series) :
              AllFinite(last.data, j, j + last.window - 1) =>
                  Nearest(last.series[j],
                          ExactSum(last.data, j, j + last.window - 1), last.window)

\* C7, amended: the same, the element being the float nearest to the mean
\* whenever the running sum of the w samples is exact (no partial sum is
\* rounded or overflows) and w as f64 is w.
C7_ElementIsMeanWhenSumExact ==
    (last.op = "moving_average" /\ last.window >= 1) =>
        /\ last.tag = "Ok"
        /\ Len(last.series) = Max(0, Len(last.data) - last.window + 1)
        /\ \A j \in 1..Len(last.series) :
              (/\ AllFinite(last.data, j, j + last.window - 1)
               /\ SumIsExact(last.data, j, j + last.window - 1)
               /\ CountIsExact(last.window)) =>
                  Nearest(last.series[j],
                          ExactSum(last.data, j, j + last.window - 1), last.window)

C7_Witness ==
    /\ last.op = "moving_average"
    /\ last.data = Example1
    /\ last.window = 3
    /\ last.series = <<Lit(2), Lit(3), Lit(4)>>

\* C8: the sink holds one event for each record call made while the engine was
\* enabled and none for a call made while it was disabled, in call order, each
\* with the timestamp, metric name and value of its call; record returns no
\* error.
EnabledCall(r) == r.enabled

C8_OneEventPerEnabledRecord ==
    LET calls == SelectSeq(recorded, EnabledCall)
    IN  /\ Len(sink) = Len(calls)
        /\ \A j \in 1..Len(calls) :
              /\ sink[j].timestamp = calls[j].data.timestamp
              /\ sink[j].metric_name = calls[j].data.metric_name
              /\ sink[j].value = calls[j].data.value
        /\ last.op = "record" =>
              /\ last.tag = "Ok"
              /\ last.emitted = IF recorded[Len(recorded)].enabled THEN 1 ELSE 0

C8_Witness ==
    /\ last.op = "record"
    /\ Len(sink) = 2
    /\ sink[1].value = NaN
    /\ sink[2].timestamp = 7

\* C9, as claimed: std_deviation(D) is 0.0 for the empty sequence and otherwise
\* the population standard deviation (read as generously as an f64 allows: the
\* float nearest to it); 0.0 for one sample and for a constant sequence, 2.0
\* for [2,4,4,4,5,5,7,9].
C9_PopulationStdDev ==
    last.op = "std_deviation" =>
        LET n == Len(last.data)
        IN  /\ n = 0 => last.num = Zero
            /\ (n > 0 /\ AllFinite(last.data, 1, n)) =>
                  /\ NearestRoot(last.num, ScaledVariance(last.data), n)
                  /\ IsConstant(last.data) => last.num = Zero
            /\ last.data = Example2 => last.num = Lit(2)

\* C9, amended: 0.0 for the empty sequence and for one finite sample, 2.0 for
\* [2,4,4,4,5,5,7,9], and the float nearest to the population standard deviation
\* (divisor len(D)) whenever every intermediate value is held exactly; so 0.0
\* for a constant sequence whose sum and mean are exact.
C9_PopulationStdDevWhenExact ==
    last.op = "std_deviation" =>
        LET n == Len(last.data)
        IN  /\ n = 0 => last.num = Zero
            /\ (n = 1 /\ AllFinite(last.data, 1, n)) => last.num = Zero
            /\ (n > 0 /\ StdIsExact(last.data)) =>
                  /\ NearestRoot(last.num, ScaledVariance(last.data), n)
                  /\ IsConstant(last.data) => last.num = Zero
            /\ last.data = Example2 => last.num = Lit(2)

C9_Witness ==
    /\ last.op = "std_deviation"
    /\ last.data = Example2
    /\ StdIsExact(last.data)
    /\ last.num = Lit(2)

\* C10: no engine operation and no accessor changes the initialized flag or a
\* field of an engine; the TxEngine keeps nothing of a created transaction;
\* initialize() changes the initialized flag and nothing else.
C10_Frame ==
    [][/\ last'.op # "initialize" => core' = core
       /\ \A a \in Accessors : core'[a] = core[a]
       /\ core'.tx_engine = TxEngine_new]_vars

C10_Witness ==
    /\ last.op = "create_transaction"
    /\ core.initialized
    /\ Len(txs) = 2
    /\ Len(sink) = 2

====
